---- MODULE Spec2Model ----
(***************************************************************************)
(* SimpleSAT: a chronological-backtracking DPLL solver.                    *)
(*                                                                         *)
(* The model follows src/src/solver.c.  The Solver struct is the record    *)
(* `solver`; the C call stack of search_assignments / try_assignment is    *)
(* the sequence `frames`; `pc` is the position of the single thread.       *)
(* make_assignment and undo_assignment are whole calls (one step each).    *)
(*                                                                         *)
(* assert() is modelled as the default build runs it: a failed assertion   *)
(* aborts the process.  The name of the function whose assertion failed is *)
(* kept in solver.assert_failed and the thread stops at pc = "abort".      *)
(*                                                                         *)
(* Arrays with a fill counter (unit_stack/n_units, assigned/n_assigned,    *)
(* lits/n_lits, cont_clauses/n_cont_clauses) are sequences holding the     *)
(* live prefix; the slots at or above the counter are never read.          *)
(*                                                                         *)
(* Around the core: read_err is read_problem's local err, err is           *)
(* solve_problem's err, n_deleted counts the calls of delete_solver,       *)
(* output is what write_solution has written.                              *)
(*                                                                         *)
(* undo_log is the record a caller keeps of what it saw before a call that *)
(* is to be undone: one entry for every running try_assignment, or for     *)
(* every make_assignment of the driver that calls make_assignment and      *)
(* undo_assignment directly.  No step of the program reads it.             *)
(***************************************************************************)
EXTENDS Integers, Sequences, FiniteSets, TLC

VARIABLES solver, pc, frames, ret, load_i,
          read_err, err, n_deleted, output, undo_log

\* the state of read_problem / solve_problem / write_solution around the core
program_vars == <<read_err, err, n_deleted, output>>

vars == <<solver, pc, frames, ret, load_i, program_vars, undo_log>>

(***************************************************************************)
(* Bounds of the model                                                     *)
(***************************************************************************)
MaxVars == 2

MaxClauses == 3

MaxLits == 4

\* most clauses the problem line announces when the whole program is run
MaxProgramClauses == 2

\* most clauses, and most literals in all clauses, of the formulas on which
\* make_assignment and undo_assignment are called directly
MaxDriverClauses == 1

MaxDriverLits == 3

\* most variables of the problems made of unit clauses, whose solutions
\* fill more than one v line
MaxOutVars == 41

(***************************************************************************)
(* Program constants                                                       *)
(***************************************************************************)
\* the fall-through value of get_unit, `return -1`: converted to the unsigned
\* Literal it is the largest code, which lies outside solver->lits
UNIT_NOT_FOUND == -1

\* the column limit of the v lines in write_solution
LINE_WIDTH == 79

ERROR_OK == "ERROR_OK"

ERROR_INVALID_FORMAT == "ERROR_INVALID_FORMAT"

ERROR_FILE_ACCESS == "ERROR_FILE_ACCESS"

\* nothing has been written to the output stream
NO_OUTPUT == [written |-> FALSE, s_line |-> "", v_lines |-> <<>>]

SOLUTION_UNKNOWN == "UNKNOWN"

SOLUTION_SATISFIABLE == "SATISFIABLE"

SOLUTION_UNSATISFIABLE == "UNSATISFIABLE"

(***************************************************************************)
(* Literal encoding                                                        *)
(***************************************************************************)
\* lit + 1 in place of lit ^ 1
negate_PlusOne(lit) == lit + 1

\* lit ^ 1
negate(lit) == IF lit % 2 = 0 THEN lit + 1 ELSE lit - 1

lit_from_int(repr) ==
    IF repr > 0 THEN (repr - 1) * 2
                ELSE ((-repr - 1) * 2) + 1

\* int_from_lit without the + 1 on the odd codes
int_from_lit_NoOffset(lit) ==
    IF lit % 2 = 1 THEN -(lit \div 2)
                   ELSE (lit \div 2) + 1

int_from_lit(lit) ==
    IF lit % 2 = 1 THEN -((lit \div 2) + 1)
                   ELSE (lit \div 2) + 1

(***************************************************************************)
(* Construction                                                            *)
(***************************************************************************)
create_clause_state ==
    [n_lits |-> 0, lits |-> <<>>,
     n_assigned_true |-> 0, n_assigned_false |-> 0, n_free_lits |-> 0]

add_literal(cstate, lit) ==
    [cstate EXCEPT !.lits = Append(@, lit),
                   !.n_lits = @ + 1,
                   !.n_free_lits = @ + 1]

create_lit_state ==
    [fixed |-> FALSE, assigned |-> FALSE, score |-> 0,
     n_cont_clauses |-> 0, cont_clauses |-> <<>>]

add_cont_clause(lstate, c) ==
    [lstate EXCEPT !.cont_clauses = Append(@, c),
                   !.n_cont_clauses = @ + 1]

\* a unit stack with room for one unit per variable only
max_unit_props_VarsOnly(s) == s.n_vars

\* the number of slots create_solver allocates for unit_stack
max_unit_props(s) == (s.n_vars * 2) + s.n_clauses

create_solver(num_vars, num_clauses) ==
    [n_vars |-> num_vars,
     lits |-> [l \in 0 .. (2 * num_vars - 1) |-> create_lit_state],
     n_clauses |-> num_clauses,
     clauses |-> [c \in 0 .. (num_clauses - 1) |-> create_clause_state],
     n_sat_clauses |-> 0,
     n_unsat_clauses |-> 0,
     n_units |-> 0,
     unit_stack |-> <<>>,
     n_assigned |-> 0,
     assigned |-> <<>>,
     solution |-> SOLUTION_UNKNOWN,
     t_branches |-> 0,
     t_unit_props |-> 0,
     assert_failed |-> "none"]

\* add_literal_to_clause without the scan for a literal already present
add_literal_to_clause_NoScan(s, c, lit) ==
    [s EXCEPT !.clauses[c] = add_literal(@, lit),
              !.lits[lit] = add_cont_clause(@, c)]

add_literal_to_clause(s, c, lit) ==
    IF \E i \in 1 .. s.clauses[c].n_lits : s.clauses[c].lits[i] = lit
    THEN s
    ELSE [s EXCEPT !.clauses[c] = add_literal(@, lit),
                   !.lits[lit] = add_cont_clause(@, c)]

\* a failed assert(): the process aborts in function `where`
assert_fail(s, where) ==
    IF s.assert_failed = "none" THEN [s EXCEPT !.assert_failed = where] ELSE s

(***************************************************************************)
(* Branching heuristic                                                     *)
(***************************************************************************)
\* the switch on n_free_lits in update_scores
weight(n_free_lits) ==
    CASE n_free_lits = 2 -> 4
      [] n_free_lits = 3 -> 2
      [] OTHER -> 1

RECURSIVE score_loop(_, _, _)
\* the inner loop of update_scores over lstate->cont_clauses, from index i
score_loop(s, lit, i) ==
    IF i > s.lits[lit].n_cont_clauses THEN 0
    ELSE LET cstate == s.clauses[s.lits[lit].cont_clauses[i]] IN
         (IF cstate.n_assigned_true # 0 THEN 0 ELSE weight(cstate.n_free_lits))
         + score_loop(s, lit, i + 1)

update_scores(s) ==
    [s EXCEPT !.lits = [lit \in DOMAIN s.lits |->
        [s.lits[lit] EXCEPT !.score =
            IF s.lits[lit].fixed THEN 0 ELSE score_loop(s, lit, 1)]]]

RECURSIVE choose_loop_LastMax(_, _, _, _)
\* the loop of choose_branch comparing with >= in place of >
choose_loop_LastMax(s, lit, best_lit, best_score) ==
    IF lit >= 2 * s.n_vars THEN best_lit
    ELSE IF s.lits[lit].fixed
    THEN choose_loop_LastMax(s, lit + 2, best_lit, best_score)
    ELSE LET a == s.lits[lit].score
             b == s.lits[negate(lit)].score
             score == (a + 1) * (b + 1)
         IN IF score >= best_score
            THEN choose_loop_LastMax(s, lit + 2,
                                     IF a >= b THEN lit ELSE negate(lit), score)
            ELSE choose_loop_LastMax(s, lit + 2, best_lit, best_score)

RECURSIVE choose_loop(_, _, _, _)
\* the loop of choose_branch over the even literal codes, from `lit`
choose_loop(s, lit, best_lit, best_score) ==
    IF lit >= 2 * s.n_vars THEN best_lit
    ELSE IF s.lits[lit].fixed THEN choose_loop(s, lit + 2, best_lit, best_score)
    ELSE LET a == s.lits[lit].score
             b == s.lits[negate(lit)].score
             score == (a + 1) * (b + 1)
         IN IF score > best_score
            THEN choose_loop(s, lit + 2, IF a >= b THEN lit ELSE negate(lit), score)
            ELSE choose_loop(s, lit + 2, best_lit, best_score)

\* the two assertions at the head of choose_branch
choose_branch_pre(s) ==
    /\ s.n_assigned # s.n_vars
    /\ s.n_sat_clauses # s.n_clauses

\* the literal choose_branch returns (the scores are refreshed first)
choose_branch(s) == choose_loop(update_scores(s), 0, 0, 0)

(***************************************************************************)
(* Assignment primitives                                                   *)
(***************************************************************************)
\* add_true_assignment with the first-satisfaction test left out
add_true_assignment_Always(s, c) ==
    LET cstate == s.clauses[c] IN
    IF ~(cstate.n_free_lits > 0) THEN assert_fail(s, "add_true_assignment")
    ELSE [s EXCEPT !.n_sat_clauses = @ + 1,
                   !.clauses[c].n_assigned_true = @ + 1,
                   !.clauses[c].n_free_lits = @ - 1]

add_true_assignment(s, c) ==
    LET cstate == s.clauses[c] IN
    IF ~(cstate.n_free_lits > 0) THEN assert_fail(s, "add_true_assignment")
    ELSE [s EXCEPT !.n_sat_clauses =
                       IF cstate.n_assigned_true = 0 THEN @ + 1 ELSE @,
                   !.clauses[c].n_assigned_true = @ + 1,
                   !.clauses[c].n_free_lits = @ - 1]

RECURSIVE get_unit_loop(_, _, _)
\* the scan of get_unit over cstate->lits, from index i
get_unit_loop(s, c, i) ==
    IF i > s.clauses[c].n_lits THEN UNIT_NOT_FOUND
    ELSE IF s.lits[s.clauses[c].lits[i]].fixed = FALSE
         THEN s.clauses[c].lits[i]
         ELSE get_unit_loop(s, c, i + 1)

\* the two assertions at the head of get_unit
get_unit_pre(s, c) ==
    /\ s.clauses[c].n_free_lits = 1
    /\ s.clauses[c].n_assigned_true = 0

\* get_unit returning the first literal of the clause without the scan
get_unit_First(s, c) == s.clauses[c].lits[1]

get_unit(s, c) == get_unit_loop(s, c, 1)

\* add_false_assignment counting a contradiction whenever the last free
\* literal goes, satisfied clause or not
add_false_assignment_LastFree(s, c) ==
    LET cstate == s.clauses[c] IN
    IF ~(cstate.n_free_lits > 0) THEN assert_fail(s, "add_false_assignment")
    ELSE LET s1 == [s EXCEPT !.n_unsat_clauses =
                        IF cstate.n_free_lits = 1 THEN @ + 1 ELSE @,
                    !.clauses[c].n_assigned_false = @ + 1,
                    !.clauses[c].n_free_lits = @ - 1]
         IN IF s1.clauses[c].n_assigned_true = 0 /\ s1.clauses[c].n_free_lits = 1
            THEN IF ~get_unit_pre(s1, c) THEN assert_fail(s1, "get_unit")
                 ELSE [s1 EXCEPT !.unit_stack = Append(@, get_unit(s1, c)),
                                 !.n_units = @ + 1]
            ELSE s1

\* add_false_assignment that never counts a contradiction
add_false_assignment_NoCount(s, c) ==
    LET cstate == s.clauses[c] IN
    IF ~(cstate.n_free_lits > 0) THEN assert_fail(s, "add_false_assignment")
    ELSE LET s1 == [s EXCEPT !.clauses[c].n_assigned_false = @ + 1,
                             !.clauses[c].n_free_lits = @ - 1]
         IN IF s1.clauses[c].n_assigned_true = 0 /\ s1.clauses[c].n_free_lits = 1
            THEN IF ~get_unit_pre(s1, c) THEN assert_fail(s1, "get_unit")
                 ELSE [s1 EXCEPT !.unit_stack = Append(@, get_unit(s1, c)),
                                 !.n_units = @ + 1]
            ELSE s1

add_false_assignment(s, c) ==
    LET cstate == s.clauses[c] IN
    IF ~(cstate.n_free_lits > 0) THEN assert_fail(s, "add_false_assignment")
    ELSE LET s1 == [s EXCEPT !.n_unsat_clauses =
                        IF cstate.n_assigned_true = 0 /\ cstate.n_free_lits = 1
                        THEN @ + 1 ELSE @,
                    !.clauses[c].n_assigned_false = @ + 1,
                    !.clauses[c].n_free_lits = @ - 1]
         IN IF s1.clauses[c].n_assigned_true = 0 /\ s1.clauses[c].n_free_lits = 1
            THEN IF ~get_unit_pre(s1, c) THEN assert_fail(s1, "get_unit")
                 ELSE [s1 EXCEPT !.unit_stack = Append(@, get_unit(s1, c)),
                                 !.n_units = @ + 1]
            ELSE s1

\* undo_true_assignment that leaves n_sat_clauses alone
undo_true_assignment_KeepSat(s, c) ==
    LET cstate == s.clauses[c] IN
    IF ~(cstate.n_free_lits < cstate.n_lits)
    THEN assert_fail(s, "undo_true_assignment")
    ELSE [s EXCEPT !.clauses[c].n_assigned_true = @ - 1,
                   !.clauses[c].n_free_lits = @ + 1]

undo_true_assignment(s, c) ==
    LET cstate == s.clauses[c] IN
    IF ~(cstate.n_free_lits < cstate.n_lits)
    THEN assert_fail(s, "undo_true_assignment")
    ELSE [s EXCEPT !.clauses[c].n_assigned_true = @ - 1,
                   !.clauses[c].n_free_lits = @ + 1,
                   !.n_sat_clauses =
                       IF cstate.n_assigned_true - 1 = 0 THEN @ - 1 ELSE @]

\* undo_false_assignment that does not give the free literal back
undo_false_assignment_NoFree(s, c) ==
    LET cstate == s.clauses[c] IN
    IF ~(cstate.n_free_lits < cstate.n_lits)
    THEN assert_fail(s, "undo_false_assignment")
    ELSE [s EXCEPT !.clauses[c].n_assigned_false = @ - 1,
                   !.n_unsat_clauses =
                       IF cstate.n_assigned_true = 0 /\ cstate.n_free_lits + 1 = 1
                       THEN @ - 1 ELSE @]

\* undo_false_assignment that decrements n_unsat_clauses without looking at
\* n_assigned_true
undo_false_assignment_AnyTrue(s, c) ==
    LET cstate == s.clauses[c] IN
    IF ~(cstate.n_free_lits < cstate.n_lits)
    THEN assert_fail(s, "undo_false_assignment")
    ELSE [s EXCEPT !.clauses[c].n_assigned_false = @ - 1,
                   !.clauses[c].n_free_lits = @ + 1,
                   !.n_unsat_clauses =
                       IF cstate.n_free_lits + 1 = 1 THEN @ - 1 ELSE @]

undo_false_assignment(s, c) ==
    LET cstate == s.clauses[c] IN
    IF ~(cstate.n_free_lits < cstate.n_lits)
    THEN assert_fail(s, "undo_false_assignment")
    ELSE [s EXCEPT !.clauses[c].n_assigned_false = @ - 1,
                   !.clauses[c].n_free_lits = @ + 1,
                   !.n_unsat_clauses =
                       IF cstate.n_assigned_true = 0 /\ cstate.n_free_lits + 1 = 1
                       THEN @ - 1 ELSE @]

(***************************************************************************)
(* Assignment commit and rollback                                          *)
(***************************************************************************)
RECURSIVE add_true_loop(_, _, _)
\* first for loop of make_assignment, from index i of lstate->cont_clauses
add_true_loop(s, lit, i) ==
    IF s.assert_failed # "none" \/ i > s.lits[lit].n_cont_clauses THEN s
    ELSE add_true_loop(add_true_assignment(s, s.lits[lit].cont_clauses[i]),
                       lit, i + 1)

RECURSIVE add_false_loop(_, _, _)
\* second for loop of make_assignment, from index i of nlstate->cont_clauses
add_false_loop(s, nlit, i) ==
    IF s.assert_failed # "none" \/ i > s.lits[nlit].n_cont_clauses THEN s
    ELSE add_false_loop(add_false_assignment(s, s.lits[nlit].cont_clauses[i]),
                        nlit, i + 1)

\* make_assignment that sets the fixed flags but not lstate->assigned
make_assignment_NoAssigned(s, lit) ==
    IF s.lits[lit].fixed # FALSE \/ s.lits[negate(lit)].fixed # FALSE
    THEN assert_fail(s, "make_assignment")
    ELSE LET s1 == [s EXCEPT !.lits[lit].fixed = TRUE,
                             !.lits[negate(lit)].fixed = TRUE,
                             !.lits[negate(lit)].assigned = FALSE]
         IN add_false_loop(add_true_loop(s1, lit, 1), negate(lit), 1)

\* make_assignment setting the fixed and assigned flags after its two loops
make_assignment_FlagsLast(s, lit) ==
    IF s.lits[lit].fixed # FALSE \/ s.lits[negate(lit)].fixed # FALSE
    THEN assert_fail(s, "make_assignment")
    ELSE LET s1 == add_false_loop(add_true_loop(s, lit, 1), negate(lit), 1)
         IN [s1 EXCEPT !.lits[lit].fixed = TRUE,
                       !.lits[lit].assigned = TRUE,
                       !.lits[negate(lit)].fixed = TRUE,
                       !.lits[negate(lit)].assigned = FALSE]

\* make_assignment running its second for loop before its first
make_assignment_FalseFirst(s, lit) ==
    IF s.lits[lit].fixed # FALSE \/ s.lits[negate(lit)].fixed # FALSE
    THEN assert_fail(s, "make_assignment")
    ELSE LET s1 == [s EXCEPT !.lits[lit].fixed = TRUE,
                             !.lits[lit].assigned = TRUE,
                             !.lits[negate(lit)].fixed = TRUE,
                             !.lits[negate(lit)].assigned = FALSE]
         IN add_true_loop(add_false_loop(s1, negate(lit), 1), lit, 1)

make_assignment(s, lit) ==
    IF s.lits[lit].fixed # FALSE \/ s.lits[negate(lit)].fixed # FALSE
    THEN assert_fail(s, "make_assignment")
    ELSE LET s1 == [s EXCEPT !.lits[lit].fixed = TRUE,
                             !.lits[lit].assigned = TRUE,
                             !.lits[negate(lit)].fixed = TRUE,
                             !.lits[negate(lit)].assigned = FALSE]
         IN add_false_loop(add_true_loop(s1, lit, 1), negate(lit), 1)

RECURSIVE undo_true_loop(_, _, _)
\* first for loop of undo_assignment
undo_true_loop(s, lit, i) ==
    IF s.assert_failed # "none" \/ i > s.lits[lit].n_cont_clauses THEN s
    ELSE undo_true_loop(undo_true_assignment(s, s.lits[lit].cont_clauses[i]),
                        lit, i + 1)

RECURSIVE undo_false_loop_OneShort(_, _, _)
\* second for loop of undo_assignment leaving out the last clause of nlit
undo_false_loop_OneShort(s, nlit, i) ==
    IF s.assert_failed # "none" \/ i >= s.lits[nlit].n_cont_clauses THEN s
    ELSE undo_false_loop_OneShort(
             undo_false_assignment(s, s.lits[nlit].cont_clauses[i]), nlit, i + 1)

RECURSIVE undo_false_loop(_, _, _)
\* second for loop of undo_assignment
undo_false_loop(s, nlit, i) ==
    IF s.assert_failed # "none" \/ i > s.lits[nlit].n_cont_clauses THEN s
    ELSE undo_false_loop(undo_false_assignment(s, s.lits[nlit].cont_clauses[i]),
                         nlit, i + 1)

\* the first loop of undo_assignment running over the clauses of the
\* negated literal, the mirror image of make_assignment
undo_assignment_first_Mirrored(s, lit) ==
    undo_false_loop(s, negate(lit), 1)

\* undo_assignment up to the end of its first for loop, lines 382-396, when
\* its four assertions pass
undo_assignment_first(s, lit) ==
    undo_true_loop(s, lit, 1)

\* undo_assignment that clears lstate->fixed but not nlstate->fixed
undo_assignment_KeepNegation(s, lit) ==
    IF ~(/\ s.lits[lit].fixed = TRUE
         /\ s.lits[lit].assigned = TRUE
         /\ s.lits[negate(lit)].fixed = TRUE
         /\ s.lits[negate(lit)].assigned = FALSE)
    THEN assert_fail(s, "undo_assignment")
    ELSE LET s1 == undo_false_loop(undo_true_loop(s, lit, 1), negate(lit), 1)
         IN IF s1.assert_failed # "none" THEN s1
            ELSE [s1 EXCEPT !.lits[lit].fixed = FALSE]

undo_assignment(s, lit) ==
    IF ~(/\ s.lits[lit].fixed = TRUE
         /\ s.lits[lit].assigned = TRUE
         /\ s.lits[negate(lit)].fixed = TRUE
         /\ s.lits[negate(lit)].assigned = FALSE)
    THEN assert_fail(s, "undo_assignment")
    ELSE LET s1 == undo_false_loop(undo_true_loop(s, lit, 1), negate(lit), 1)
         IN IF s1.assert_failed # "none" THEN s1
            ELSE [s1 EXCEPT !.lits[lit].fixed = FALSE,
                            !.lits[negate(lit)].fixed = FALSE]

\* a conflict that leaves the pending units on the stack
clear_units_Keep(s) == s

\* line 459 of try_assignment: solver->n_units = 0
clear_units(s) == [s EXCEPT !.n_units = 0, !.unit_stack = <<>>]

\* all_satisfied that does not accept an empty clause array
all_satisfied_NonEmpty(s) == s.n_clauses > 0 /\ s.n_sat_clauses = s.n_clauses

all_satisfied(s) == s.n_sat_clauses = s.n_clauses

any_contradiction(s) == s.n_unsat_clauses > 0

(***************************************************************************)
(* Call stack                                                              *)
(***************************************************************************)
\* an activation of search_assignments that has chosen `branch`;
\* second = FALSE while try_assignment(branch) runs (line 421),
\* second = TRUE while try_assignment(negate(branch)) runs (line 426)
search_frame(branch, second) ==
    [fn |-> "search_assignments", branch |-> branch, second |-> second,
     prev_n_assigned |-> 0]

\* an activation of try_assignment(branch) with its local prev_n_assigned
try_frame(branch, prev_n_assigned) ==
    [fn |-> "try_assignment", branch |-> branch, second |-> FALSE,
     prev_n_assigned |-> prev_n_assigned]

top == frames[Len(frames)]

pop(stack) == SubSeq(stack, 1, Len(stack) - 1)

\* the counters of the clauses, the fixed flags of the literals and the two
\* clause counts of the solver
counters(s) ==
    [clauses |-> [c \in 0 .. (s.n_clauses - 1) |->
                      <<s.clauses[c].n_assigned_true,
                        s.clauses[c].n_assigned_false,
                        s.clauses[c].n_free_lits>>],
     fixed |-> [lit \in 0 .. (2 * s.n_vars - 1) |-> s.lits[lit].fixed],
     n_sat_clauses |-> s.n_sat_clauses,
     n_unsat_clauses |-> s.n_unsat_clauses]

\* what the caller of try_assignment(lit) can compare on return: the counters
\* and the trail as they are at the call
at_call(s, lit) ==
    [lit |-> lit, before |-> counters(s),
     n_assigned |-> s.n_assigned, assigned |-> s.assigned]

(***************************************************************************)
(* Initial state: a solver right after create_solver                       *)
(***************************************************************************)
Init ==
    /\ \E num_vars \in 1 .. MaxVars, num_clauses \in 0 .. MaxClauses :
           solver = create_solver(num_vars, num_clauses)
    /\ pc = "load"
    /\ frames = <<>>
    /\ ret = SOLUTION_UNKNOWN
    /\ load_i = 0
    /\ read_err = "unset"
    /\ err = ERROR_OK
    /\ n_deleted = 0
    /\ output = NO_OUTPUT
    /\ undo_log = <<>>

(***************************************************************************)
(* Loading: the clause loop of read_problem                                *)
(***************************************************************************)
RECURSIVE lits_loaded(_, _)
\* the number of literals stored so far in clauses c, c + 1, ...
lits_loaded(s, c) ==
    IF c >= s.n_clauses THEN 0
    ELSE s.clauses[c].n_lits + lits_loaded(s, c + 1)

\* a nonzero integer is read and added to clause load_i
ReadLiteral ==
    /\ pc = "load"
    /\ load_i < solver.n_clauses
    /\ lits_loaded(solver, 0) < MaxLits
    /\ \E repr \in (-solver.n_vars .. solver.n_vars) \ {0} :
           solver' = add_literal_to_clause(solver, load_i, lit_from_int(repr))
    /\ UNCHANGED <<pc, frames, ret, load_i, program_vars, undo_log>>

\* the terminating 0 of clause load_i is read
ReadTerminator ==
    /\ pc = "load"
    /\ load_i < solver.n_clauses
    /\ load_i' = load_i + 1
    /\ UNCHANGED <<solver, pc, frames, ret, program_vars, undo_log>>

\* solve_problem calls search_assignments on the loaded solver
StartSearch ==
    /\ pc = "load"
    /\ load_i = solver.n_clauses
    /\ pc' = "search"
    /\ UNCHANGED <<solver, frames, ret, load_i, program_vars, undo_log>>

(***************************************************************************)
(* search_assignments                                                      *)
(***************************************************************************)
\* the terminal check at the head of search_assignments
SearchEnter ==
    /\ pc = "search"
    /\ IF any_contradiction(solver)
       THEN ret' = SOLUTION_UNSATISFIABLE /\ pc' = "search_ret"
       ELSE IF all_satisfied(solver)
       THEN ret' = SOLUTION_SATISFIABLE /\ pc' = "search_ret"
       ELSE ret' = ret /\ pc' = "choose"
    /\ UNCHANGED <<solver, frames, load_i, program_vars, undo_log>>

\* branch = choose_branch(solver)
ChooseBranch ==
    /\ pc = "choose"
    /\ IF ~choose_branch_pre(solver)
       THEN /\ solver' = assert_fail(solver, "choose_branch")
            /\ pc' = "abort"
            /\ frames' = frames
       ELSE /\ solver' = update_scores(solver)
            /\ frames' = Append(frames, search_frame(choose_branch(solver), FALSE))
            /\ pc' = "try"
    /\ UNCHANGED <<ret, load_i, program_vars, undo_log>>

\* search_assignments returns `ret` to its caller
SearchReturn ==
    /\ pc = "search_ret"
    /\ IF frames = <<>>
       THEN \* solve_problem: solver.solution = search_assignments(&solver)
            /\ solver' = [solver EXCEPT !.solution = ret]
            /\ pc' = "done"
       ELSE \* try_assignment, line 468
            /\ solver' = solver
            /\ pc' = IF ret = SOLUTION_UNSATISFIABLE THEN "backtrack" ELSE "try_ret"
    /\ UNCHANGED <<frames, ret, load_i, program_vars, undo_log>>

(***************************************************************************)
(* try_assignment                                                          *)
(***************************************************************************)
\* the second attempt of search_assignments repeating the first literal
try_argument_Same(frame) == frame.branch

\* the literal the running search_assignments passes to try_assignment
try_argument(frame) ==
    IF frame.second THEN negate(frame.branch) ELSE frame.branch

\* lines 443-447 without t_branches += 1
try_assignment_begin_NoCount(s, branch) ==
    make_assignment([s EXCEPT !.assigned = Append(@, branch),
                              !.n_assigned = @ + 1], branch)

\* lines 443-447 without the push of the branch on the trail
try_assignment_begin_NoPush(s, branch) ==
    make_assignment([s EXCEPT !.t_branches = @ + 1], branch)

\* lines 443-447: record the trail height, push the branch, assign it
try_assignment_begin(s, branch) ==
    make_assignment([s EXCEPT !.t_branches = @ + 1,
                              !.assigned = Append(@, branch),
                              !.n_assigned = @ + 1], branch)

TryAssignment ==
    /\ pc = "try"
    /\ LET branch == try_argument(top) IN
       /\ frames' = Append(frames, try_frame(branch, solver.n_assigned))
       /\ solver' = try_assignment_begin(solver, branch)
       /\ undo_log' = Append(undo_log, at_call(solver, branch))
    /\ pc' = IF solver'.assert_failed # "none" THEN "abort" ELSE "propagate"
    /\ UNCHANGED <<ret, load_i, program_vars>>

\* one iteration of the propagation loop, lines 449-462
Propagate ==
    /\ pc = "propagate"
    /\ solver.n_units > 0
    /\ LET unit == solver.unit_stack[solver.n_units]
           s1 == [solver EXCEPT !.n_units = @ - 1,
                                !.unit_stack = pop(@)]
       IN IF unit \in DOMAIN solver.lits
          THEN IF ~solver.lits[unit].fixed
               THEN /\ solver' = make_assignment(
                                    [s1 EXCEPT !.t_unit_props = @ + 1,
                                               !.assigned = Append(@, unit),
                                               !.n_assigned = @ + 1], unit)
                    /\ pc' = IF solver'.assert_failed # "none"
                             THEN "abort" ELSE "propagate"
                    /\ ret' = ret
               ELSE IF ~solver.lits[unit].assigned
               THEN /\ solver' = clear_units(s1)
                    /\ ret' = SOLUTION_UNSATISFIABLE
                    /\ pc' = "backtrack"
               ELSE /\ solver' = s1
                    /\ pc' = "propagate"
                    /\ ret' = ret
          ELSE \* solver->lits[unit] is read outside the array: the flags
               \* read are arbitrary, and an unfixed reading makes
               \* make_assignment write outside the array
               \E fixed \in BOOLEAN, assigned \in BOOLEAN :
                   IF ~fixed
                   THEN /\ solver' = assert_fail(s1, "out_of_bounds")
                        /\ pc' = "abort"
                        /\ ret' = ret
                   ELSE IF ~assigned
                   THEN /\ solver' = clear_units(s1)
                        /\ ret' = SOLUTION_UNSATISFIABLE
                        /\ pc' = "backtrack"
                   ELSE /\ solver' = s1
                        /\ pc' = "propagate"
                        /\ ret' = ret
    /\ UNCHANGED <<frames, load_i, program_vars, undo_log>>

\* the propagation loop ends; line 468 calls search_assignments
PropagateDone ==
    /\ pc = "propagate"
    /\ solver.n_units = 0
    /\ pc' = "search"
    /\ UNCHANGED <<solver, frames, ret, load_i, program_vars, undo_log>>

\* the backtrack loop popping the trail without undo_assignment
Backtrack_PopOnly ==
    /\ pc = "backtrack"
    /\ solver.n_assigned > top.prev_n_assigned
    /\ solver' = [solver EXCEPT !.n_assigned = @ - 1, !.assigned = pop(@)]
    /\ pc' = "backtrack"
    /\ UNCHANGED <<frames, ret, load_i, program_vars, undo_log>>

\* one iteration of the backtrack loop, lines 471-474
Backtrack ==
    /\ pc = "backtrack"
    /\ solver.n_assigned > top.prev_n_assigned
    /\ LET lit == solver.assigned[solver.n_assigned] IN
       solver' = undo_assignment([solver EXCEPT !.n_assigned = @ - 1,
                                                !.assigned = pop(@)], lit)
    /\ pc' = IF solver'.assert_failed # "none" THEN "abort" ELSE "backtrack"
    /\ UNCHANGED <<frames, ret, load_i, program_vars, undo_log>>

\* the backtrack loop ends; line 475 asserts, line 478 returns
BacktrackDone ==
    /\ pc = "backtrack"
    /\ ~(solver.n_assigned > top.prev_n_assigned)
    /\ IF solver.n_assigned # top.prev_n_assigned
       THEN solver' = assert_fail(solver, "try_assignment") /\ pc' = "abort"
       ELSE solver' = solver /\ pc' = "try_ret"
    /\ UNCHANGED <<frames, ret, load_i, program_vars, undo_log>>

\* search_assignments trying the negated branch whatever the first
\* try_assignment returned
TryReturn_AlwaysSecond ==
    /\ pc = "try_ret"
    /\ LET caller == frames[Len(frames) - 1] IN
       IF ~caller.second
       THEN /\ frames' = Append(pop(pop(frames)), search_frame(caller.branch, TRUE))
            /\ pc' = "try"
       ELSE /\ frames' = pop(pop(frames))
            /\ pc' = "search_ret"
    /\ undo_log' = pop(undo_log)
    /\ UNCHANGED <<solver, ret, load_i, program_vars>>

\* try_assignment returns `ret` to search_assignments, lines 421-431
TryReturn ==
    /\ pc = "try_ret"
    /\ LET caller == frames[Len(frames) - 1] IN
       IF ret # SOLUTION_UNSATISFIABLE
       THEN /\ frames' = pop(pop(frames))
            /\ pc' = "search_ret"
       ELSE IF ~caller.second
       THEN /\ frames' = Append(pop(pop(frames)), search_frame(caller.branch, TRUE))
            /\ pc' = "try"
       ELSE /\ frames' = pop(pop(frames))
            /\ pc' = "search_ret"
    /\ undo_log' = pop(undo_log)
    /\ UNCHANGED <<solver, ret, load_i, program_vars>>

Next ==
    \/ ReadLiteral
    \/ ReadTerminator
    \/ StartSearch
    \/ SearchEnter
    \/ ChooseBranch
    \/ SearchReturn
    \/ TryAssignment
    \/ Propagate
    \/ PropagateDone
    \/ Backtrack
    \/ BacktrackDone
    \/ TryReturn

Spec == Init /\ [][Next]_vars

(***************************************************************************)
(* read_problem and solve_problem around the search                        *)
(***************************************************************************)
\* fscanf(stream, " %d", &repr) != 1 inside the clause loop: diagnostic,
\* err = ERROR_INVALID_FORMAT, goto cleanup (the solver is not released)
ReadFail_NoRelease ==
    /\ pc = "load"
    /\ load_i < solver.n_clauses
    /\ read_err' = ERROR_INVALID_FORMAT
    /\ n_deleted' = n_deleted
    /\ err' = ERROR_INVALID_FORMAT
    /\ pc' = "read_ret"
    /\ UNCHANGED <<solver, frames, ret, load_i, output, undo_log>>

\* fscanf(stream, " %d", &repr) != 1 inside the clause loop (end of input or
\* a token that is no integer): diagnostic, err = ERROR_INVALID_FORMAT,
\* goto cleanup_solver: delete_solver(solver); return err
ReadFail ==
    /\ pc = "load"
    /\ load_i < solver.n_clauses
    /\ read_err' = ERROR_INVALID_FORMAT
    /\ n_deleted' = n_deleted + 1
    /\ err' = ERROR_INVALID_FORMAT
    /\ pc' = "read_ret"
    /\ UNCHANGED <<solver, frames, ret, load_i, output, undo_log>>

\* the clause loop of read_problem ends after n_clauses clauses
ReadClausesDone ==
    /\ pc = "load"
    /\ load_i = solver.n_clauses
    /\ pc' = "tail"
    /\ UNCHANGED <<solver, frames, ret, load_i, program_vars, undo_log>>

\* one iteration of the end-of-input loop of read_problem, c = fgetc(stream):
\* EOF leaves the loop and line 115 returns ERROR_OK; a character that is
\* no white space prints the diagnostic and sets err, and the loop goes on
ReadTail ==
    /\ pc = "tail"
    /\ \E c \in {"EOF", "space", "other"} :
           CASE c = "EOF" -> /\ err' = ERROR_OK
                             /\ pc' = "read_ret"
                             /\ read_err' = read_err
             [] c = "space" -> UNCHANGED <<err, pc, read_err>>
             [] c = "other" -> /\ read_err' = ERROR_INVALID_FORMAT
                               /\ UNCHANGED <<err, pc>>
    /\ UNCHANGED <<solver, frames, ret, load_i, n_deleted, output, undo_log>>

\* solve_problem after read_problem has returned: if (err) goto cleanup,
\* else search_assignments is called
SolveProblemCheck ==
    /\ pc = "read_ret"
    /\ pc' = IF err # ERROR_OK THEN "exit" ELSE "search"
    /\ UNCHANGED <<solver, frames, ret, load_i, program_vars, undo_log>>

(***************************************************************************)
(* write_solution                                                          *)
(***************************************************************************)
RECURSIVE digits(_)
\* the number of decimal digits of n >= 0
digits(n) == IF n < 10 THEN 1 ELSE 1 + digits(n \div 10)

\* strlen(buffer) after sprintf(buffer, " %d", n)
numlen(n) == 1 + (IF n < 0 THEN 1 ELSE 0) + digits(IF n < 0 THEN -n ELSE n)

\* the token is appended to the last line written
append_token(lines, n) ==
    [lines EXCEPT ![Len(lines)] = Append(@, n)]

RECURSIVE write_loop_NoAssigned(_, _, _, _)
\* the loop of write_solution testing only the fixed flag
write_loop_NoAssigned(s, lit, column, lines) ==
    IF lit >= 2 * s.n_vars
    THEN IF column + 2 > LINE_WIDTH THEN Append(lines, <<0>>)
                                    ELSE append_token(lines, 0)
    ELSE IF s.lits[lit].fixed
    THEN LET n == int_from_lit(lit)
             wrap == column + numlen(n) > LINE_WIDTH
             lines1 == IF wrap THEN Append(lines, <<>>) ELSE lines
             column1 == IF wrap THEN 1 ELSE column
         IN write_loop_NoAssigned(s, lit + 1, column1 + numlen(n),
                               append_token(lines1, n))
    ELSE write_loop_NoAssigned(s, lit + 1, column, lines)

RECURSIVE write_loop(_, _, _, _)
\* the loop of write_solution over the literal codes from `lit`, and the
\* closing 0.  `lines` are the v lines so far, each the sequence of the
\* integers printed after its "v"; the last one is the line being written
write_loop(s, lit, column, lines) ==
    IF lit >= 2 * s.n_vars
    THEN IF column + 2 > LINE_WIDTH THEN Append(lines, <<0>>)
                                    ELSE append_token(lines, 0)
    ELSE IF s.lits[lit].fixed /\ s.lits[lit].assigned
    THEN LET n == int_from_lit(lit)
             wrap == column + numlen(n) > LINE_WIDTH
             lines1 == IF wrap THEN Append(lines, <<>>) ELSE lines
             column1 == IF wrap THEN 1 ELSE column
         IN write_loop(s, lit + 1, column1 + numlen(n), append_token(lines1, n))
    ELSE write_loop(s, lit + 1, column, lines)

\* write_solution starting the first v line at column 0
write_solution_ColumnZero(s) ==
    [written |-> TRUE,
     s_line |-> s.solution,
     v_lines |-> IF s.solution = SOLUTION_SATISFIABLE
                 THEN write_loop(s, 0, 0, << <<>> >>)
                 ELSE <<>>]

\* what write_solution writes: the s line and, when SATISFIABLE, the v lines
write_solution(s) ==
    [written |-> TRUE,
     s_line |-> s.solution,
     v_lines |-> IF s.solution = SOLUTION_SATISFIABLE
                 THEN write_loop(s, 0, 2, << <<>> >>)
                 ELSE <<>>]

\* solve_problem lines 84-100: the output stream is opened (stdout always
\* is) and write_solution is called; a failed fopen sets ERROR_FILE_ACCESS
WriteSolution ==
    /\ pc = "done"
    /\ \E opened \in BOOLEAN :
           IF opened THEN output' = write_solution(solver) /\ err' = err
                     ELSE output' = output /\ err' = ERROR_FILE_ACCESS
    /\ pc' = "written"
    /\ UNCHANGED <<solver, frames, ret, load_i, read_err, n_deleted, undo_log>>

\* solve_problem line 103, cleanup_solver: delete_solver(&solver)
DeleteSolver ==
    /\ pc = "written"
    /\ n_deleted' = n_deleted + 1
    /\ pc' = "exit"
    /\ UNCHANGED <<solver, frames, ret, load_i, read_err, err, output, undo_log>>

(***************************************************************************)
(* The whole program from the clause loop of read_problem on               *)
(***************************************************************************)
\* read_problem has accepted the problem line, so n_clauses > 0
ProgramInit ==
    /\ \E num_vars \in 1 .. MaxVars, num_clauses \in 1 .. MaxProgramClauses :
           solver = create_solver(num_vars, num_clauses)
    /\ pc = "load"
    /\ frames = <<>>
    /\ ret = SOLUTION_UNKNOWN
    /\ load_i = 0
    /\ read_err = "unset"
    /\ err = ERROR_OK
    /\ n_deleted = 0
    /\ output = NO_OUTPUT
    /\ undo_log = <<>>

ProgramNext ==
    \/ ReadLiteral
    \/ ReadTerminator
    \/ ReadFail
    \/ ReadClausesDone
    \/ ReadTail
    \/ SolveProblemCheck
    \/ SearchEnter
    \/ ChooseBranch
    \/ SearchReturn
    \/ TryAssignment
    \/ Propagate
    \/ PropagateDone
    \/ Backtrack
    \/ BacktrackDone
    \/ TryReturn
    \/ WriteSolution
    \/ DeleteSolver

ProgramSpec == ProgramInit /\ [][ProgramNext]_vars

(***************************************************************************)
(* The program on given problem files                                      *)
(***************************************************************************)
\* p cnf 3 3 / -1 2 0 / -2 3 0 / -3 0
Chain == [n_vars |-> 3, n_clauses |-> 3,
          input |-> <<-1, 2, 0, -2, 3, 0, -3, 0>>]

\* pigeon i in 1..3 sits in hole j in 1..2 is variable 2(i-1)+j: every
\* pigeon sits in a hole, no two pigeons share a hole
Pigeonhole == [n_vars |-> 6, n_clauses |-> 9,
               input |-> <<1, 2, 0, 3, 4, 0, 5, 6, 0,
                           -1, -3, 0, -1, -5, 0, -3, -5, 0,
                           -2, -4, 0, -2, -6, 0, -4, -6, 0>>]

\* p cnf 1 1 / 1 0
SingleUnit == [n_vars |-> 1, n_clauses |-> 1, input |-> <<1, 0>>]

\* p cnf 1 2 / 1 0 / -1 0
UnitConflict == [n_vars |-> 1, n_clauses |-> 2, input |-> <<1, 0, -1, 0>>]

\* p cnf 3 3 / 1 2 3 0 / -1 -2 0 / -2 -3 0
SmallSat == [n_vars |-> 3, n_clauses |-> 3,
             input |-> <<1, 2, 3, 0, -1, -2, 0, -2, -3, 0>>]

\* p cnf 3 5 / -1 2 0 / -1 3 0 / -1 -3 0 / 1 3 0 / 1 -3 0: either polarity of
\* variable 1 makes 3 and -3 units
PendingConflict == [n_vars |-> 3, n_clauses |-> 5,
                    input |-> <<-1, 2, 0, -1, 3, 0, -1, -3, 0,
                                1, 3, 0, 1, -3, 0>>]

\* p cnf 2 6 / 1 2 0 / 1 -2 0 / 1 2 0 / -1 2 0 / -1 -2 0 / -1 2 0: three
\* clauses become unit at once when variable 1 is assigned
ManyUnits == [n_vars |-> 2, n_clauses |-> 6,
              input |-> <<1, 2, 0, 1, -2, 0, 1, 2, 0,
                          -1, 2, 0, -1, -2, 0, -1, 2, 0>>]

Scenarios ==
    {SingleUnit, UnitConflict, Chain, SmallSat, Pigeonhole, PendingConflict,
     ManyUnits}

\* the clauses (-v 0) for v <= k and (v 0) for v > k, v from 1 to n
unit_clauses(n, k) ==
    [i \in 1 .. 2 * n |->
        IF i % 2 = 0 THEN 0
        ELSE IF (i + 1) \div 2 <= k THEN -((i + 1) \div 2) ELSE (i + 1) \div 2]

\* p cnf n n / one unit clause for every variable, the first k negative
UnitProblem(n, k) ==
    [n_vars |-> n, n_clauses |-> n, input |-> unit_clauses(n, k)]

UnitProblems == {UnitProblem(n, k) : n \in 1 .. MaxOutVars, k \in 0 .. MaxOutVars}

RECURSIVE read_clauses(_, _, _)
\* the clause loop of read_problem, for (i = 0; i < n_clauses; ++i), over
\* the integers of `input`, clause i being the one under construction
read_clauses(s, i, input) ==
    IF i >= s.n_clauses \/ input = <<>> THEN s
    ELSE IF Head(input) = 0
    THEN read_clauses(s, i + 1, Tail(input))
    ELSE read_clauses(add_literal_to_clause(s, i, lit_from_int(Head(input))),
                      i, Tail(input))

\* the solver read_problem hands to solve_problem for a well-formed file
read_problem(problem) ==
    read_clauses(create_solver(problem.n_vars, problem.n_clauses), 0, problem.input)

\* read_problem has returned ERROR_OK on one of the problem files
ScenarioInit ==
    /\ \E problem \in Scenarios \cup UnitProblems :
           /\ solver = read_problem(problem)
           /\ load_i = problem.n_clauses
    /\ pc = "read_ret"
    /\ frames = <<>>
    /\ ret = SOLUTION_UNKNOWN
    /\ read_err = "unset"
    /\ err = ERROR_OK
    /\ n_deleted = 0
    /\ output = NO_OUTPUT
    /\ undo_log = <<>>

ScenarioNext ==
    \/ SolveProblemCheck
    \/ SearchEnter
    \/ ChooseBranch
    \/ SearchReturn
    \/ TryAssignment
    \/ Propagate
    \/ PropagateDone
    \/ Backtrack
    \/ BacktrackDone
    \/ TryReturn
    \/ WriteSolution
    \/ DeleteSolver

ScenarioSpec == ScenarioInit /\ [][ScenarioNext]_vars

(***************************************************************************)
(* make_assignment and undo_assignment called directly, in stack order     *)
(***************************************************************************)
\* create_solver for a formula of the driver
DriverInit ==
    /\ \E num_vars \in 1 .. MaxVars, num_clauses \in 1 .. MaxDriverClauses :
           solver = create_solver(num_vars, num_clauses)
    /\ pc = "load"
    /\ frames = <<>>
    /\ ret = SOLUTION_UNKNOWN
    /\ load_i = 0
    /\ read_err = "unset"
    /\ err = ERROR_OK
    /\ n_deleted = 0
    /\ output = NO_OUTPUT
    /\ undo_log = <<>>

\* add_literal_to_clause on clause load_i
DriverReadLiteral ==
    /\ pc = "load"
    /\ load_i < solver.n_clauses
    /\ lits_loaded(solver, 0) < MaxDriverLits
    /\ \E repr \in (-solver.n_vars .. solver.n_vars) \ {0} :
           solver' = add_literal_to_clause(solver, load_i, lit_from_int(repr))
    /\ UNCHANGED <<pc, frames, ret, load_i, program_vars, undo_log>>

\* the formula is loaded; the caller starts assigning
DriverStart ==
    /\ pc = "load"
    /\ load_i = solver.n_clauses
    /\ pc' = "driver"
    /\ UNCHANGED <<solver, frames, ret, load_i, program_vars, undo_log>>

\* make_assignment(solver, lit) on a variable that is not fixed; the caller
\* remembers the literal and the counters it saw, and drops the units found
\* as try_assignment does at line 459
DriverMake ==
    /\ pc = "driver"
    /\ \E lit \in DOMAIN solver.lits :
           /\ ~solver.lits[lit].fixed
           /\ solver' = clear_units(make_assignment(solver, lit))
           /\ undo_log' = Append(undo_log, [lit |-> lit, before |-> counters(solver)])
    /\ pc' = IF solver'.assert_failed # "none" THEN "abort" ELSE "driver"
    /\ UNCHANGED <<frames, ret, load_i, program_vars>>

\* undo_assignment(solver, lit) on the literal assigned last
DriverUndo ==
    /\ pc = "driver"
    /\ undo_log # <<>>
    /\ solver' = undo_assignment(solver, undo_log[Len(undo_log)].lit)
    /\ undo_log' = pop(undo_log)
    /\ pc' = IF solver'.assert_failed # "none" THEN "abort" ELSE "driver"
    /\ UNCHANGED <<frames, ret, load_i, program_vars>>

DriverNext ==
    \/ DriverReadLiteral
    \/ ReadTerminator
    \/ DriverStart
    \/ DriverMake
    \/ DriverUndo

DriverSpec == DriverInit /\ [][DriverNext]_vars

(***************************************************************************)
(* The clause loop of read_problem on any integers                         *)
(***************************************************************************)
\* lines 88-101 of read_problem: fscanf reads a nonzero integer and its
\* literal goes to add_literal_to_clause without a comparison with n_vars.
\* When the literal is not yet in the clause and its code is 2 * n_vars or
\* more, add_literal stores it in the clause and add_cont_clause is then
\* called on &solver->lits[lit] outside the array: the process crashes, or
\* the stray write goes unnoticed and the loop carries on
LoaderReadLiteral ==
    /\ pc = "load"
    /\ load_i < solver.n_clauses
    /\ lits_loaded(solver, 0) < MaxLits
    /\ \E repr \in (-(solver.n_vars + 1) .. (solver.n_vars + 1)) \ {0} :
           LET lit == lit_from_int(repr)
               cstate == solver.clauses[load_i]
               stored == [solver EXCEPT !.clauses[load_i] = add_literal(@, lit)]
           IN IF \/ lit \in DOMAIN solver.lits
                 \/ \E i \in 1 .. cstate.n_lits : cstate.lits[i] = lit
              THEN /\ solver' = add_literal_to_clause(solver, load_i, lit)
                   /\ pc' = pc
              ELSE \E crashed \in BOOLEAN :
                       IF crashed
                       THEN /\ solver' = assert_fail(stored, "out_of_bounds")
                            /\ pc' = "abort"
                       ELSE /\ solver' = stored
                            /\ pc' = pc
    /\ UNCHANGED <<frames, ret, load_i, program_vars, undo_log>>

LoaderNext ==
    \/ LoaderReadLiteral
    \/ ReadTerminator
    \/ ReadFail
    \/ ReadClausesDone
    \/ ReadTail

LoaderSpec == ProgramInit /\ [][LoaderNext]_vars

(***************************************************************************)
(* Vocabulary of the properties                                            *)
(***************************************************************************)
ClauseIds == 0 .. (solver.n_clauses - 1)

LitIds == 0 .. (2 * solver.n_vars - 1)

ClauseLits(c) == {solver.clauses[c].lits[i] : i \in 1 .. solver.clauses[c].n_lits}

Trail == {solver.assigned[i] : i \in 1 .. solver.n_assigned}

\* the formula is loaded and the search has begun
Searching == pc # "load"

\* search_assignments has returned to solve_problem
Returned == pc = "done"

HasEmptyClause == \E c \in ClauseIds : solver.clauses[c].n_lits = 0

\* literal `lit` is true when exactly the variables in `trues` are true
LitTrueUnder(lit, trues) ==
    IF lit % 2 = 0 THEN ((lit \div 2) + 1) \in trues
                   ELSE ((lit \div 2) + 1) \notin trues

\* some total assignment makes every clause true
BruteForceSatisfiable ==
    \E trues \in SUBSET (1 .. solver.n_vars) :
        \A c \in ClauseIds : \E lit \in ClauseLits(c) : LitTrueUnder(lit, trues)

\* the clauses of s as sequences of literal codes
Formula(s) == [c \in 0 .. (s.n_clauses - 1) |-> s.clauses[c].lits]

\* the solver holds the formula of `problem`
Solving(problem) ==
    /\ solver.n_vars = problem.n_vars
    /\ Formula(solver) = Formula(read_problem(problem))

\* search_assignments has returned to solve_problem
HasVerdict == pc \in {"done", "written", "exit"}

(***************************************************************************)
(* C1: when the search returns SATISFIABLE, the literals that are fixed    *)
(* and assigned in the final state make at least one literal of every      *)
(* clause true.                                                            *)
(***************************************************************************)
C1_SatisfiableAssignmentSatisfies ==
    (Returned /\ solver.solution = SOLUTION_SATISFIABLE) =>
        \A c \in ClauseIds : \E lit \in ClauseLits(c) :
            solver.lits[lit].fixed /\ solver.lits[lit].assigned

C1_Witness ==
    /\ Returned
    /\ solver.solution = SOLUTION_SATISFIABLE
    /\ solver.n_clauses >= 2
    /\ solver.t_branches >= 2
    /\ solver.t_unit_props >= 1

(***************************************************************************)
(* C2: when the search returns UNSATISFIABLE, no total assignment of the   *)
(* n_vars variables satisfies every clause.                                *)
(***************************************************************************)
C2_UnsatisfiableIsSound ==
    (Returned /\ solver.solution = SOLUTION_UNSATISFIABLE) =>
        ~BruteForceSatisfiable

C2_Witness ==
    /\ Returned
    /\ solver.solution = SOLUTION_UNSATISFIABLE
    /\ ~HasEmptyClause
    /\ solver.n_vars >= 2
    /\ solver.t_unit_props >= 1

(***************************************************************************)
(* C3: a top-level search_assignments ends only by returning, and what it  *)
(* returns is SATISFIABLE or UNSATISFIABLE.                                *)
(***************************************************************************)
C3_SearchReturnsVerdict ==
    /\ pc # "abort"
    /\ Returned => solver.solution \in {SOLUTION_SATISFIABLE, SOLUTION_UNSATISFIABLE}

(***************************************************************************)
(* C4: no assertion of the core fails during a search, whatever the        *)
(* clauses are (empty ones included).                                      *)
(***************************************************************************)
C4_NoAssertionFails == solver.assert_failed = "none"

(***************************************************************************)
(* C5: with a clause that has no literals the search counts a              *)
(* contradiction from the start: it never gets to choose a branch and      *)
(* returns UNSATISFIABLE.                                                  *)
(***************************************************************************)
C5_EmptyClauseUnsatisfiable ==
    (Searching /\ HasEmptyClause) =>
        /\ pc \in {"search", "search_ret", "done"}
        /\ pc \in {"search_ret", "done"} => ret = SOLUTION_UNSATISFIABLE

(***************************************************************************)
(* C6: with n_clauses = 0 the search returns SATISFIABLE at the terminal   *)
(* check: it never reaches choose_branch or try_assignment, and the branch *)
(* counter, the propagation counter and n_assigned stay 0.                 *)
(***************************************************************************)
C6_NoClausesImmediatelySat ==
    (Searching /\ solver.n_clauses = 0) =>
        /\ pc \in {"search", "search_ret", "done"}
        /\ pc \in {"search_ret", "done"} => ret = SOLUTION_SATISFIABLE
        /\ Returned => solver.solution = SOLUTION_SATISFIABLE
        /\ solver.t_branches = 0
        /\ solver.t_unit_props = 0
        /\ solver.n_assigned = 0

C6_Witness ==
    /\ Returned
    /\ solver.n_clauses = 0
    /\ solver.solution = SOLUTION_SATISFIABLE

(***************************************************************************)
(* C7 (S1): between completed make_assignment / undo_assignment calls,     *)
(* n_sat_clauses is the number of clauses with n_assigned_true > 0.        *)
(***************************************************************************)
C7_S1_SatCount ==
    solver.assert_failed = "none" =>
        solver.n_sat_clauses =
            Cardinality({c \in ClauseIds : solver.clauses[c].n_assigned_true > 0})

\* an undo_assignment has acted (a literal is unfixed with its assigned flag
\* left set) while another assignment still satisfies a clause
C7_Witness ==
    /\ pc = "backtrack"
    /\ solver.n_sat_clauses >= 1
    /\ solver.n_sat_clauses < solver.n_clauses
    /\ \E lit \in LitIds : ~solver.lits[lit].fixed /\ solver.lits[lit].assigned

(***************************************************************************)
(* C8 (S2): once the formula is constructed, n_unsat_clauses is the number *)
(* of clauses with n_assigned_true = 0 and n_free_lits = 0.                *)
(***************************************************************************)
C8_S2_UnsatCount ==
    (Searching /\ solver.assert_failed = "none") =>
        solver.n_unsat_clauses =
            Cardinality({c \in ClauseIds : /\ solver.clauses[c].n_assigned_true = 0
                                           /\ solver.clauses[c].n_free_lits = 0})

(***************************************************************************)
(* C9 (C0): in every clause n_assigned_true + n_assigned_false +           *)
(* n_free_lits is the number of literals stored, tautological clauses      *)
(* included.                                                               *)
(***************************************************************************)
C9_C0_CountersSum ==
    \A c \in ClauseIds :
        solver.clauses[c].n_assigned_true + solver.clauses[c].n_assigned_false
            + solver.clauses[c].n_free_lits = Len(solver.clauses[c].lits)

C9_Witness ==
    /\ pc = "try_ret"
    /\ ret = SOLUTION_UNSATISFIABLE
    /\ \E c \in ClauseIds : \E lit \in ClauseLits(c) :
           /\ negate(lit) \in ClauseLits(c)
           /\ solver.clauses[c].n_assigned_true = 1
           /\ solver.clauses[c].n_assigned_false = 1

(***************************************************************************)
(* C10 (S3): when search_assignments is entered or returns, every literal  *)
(* on the trail is fixed and assigned, and every literal off the trail is  *)
(* either not fixed or the negation of a trail entry.                      *)
(***************************************************************************)
C10_S3_Trail ==
    pc \in {"search", "search_ret"} =>
        /\ \A lit \in Trail : solver.lits[lit].fixed /\ solver.lits[lit].assigned
        /\ \A lit \in LitIds \ Trail :
               ~solver.lits[lit].fixed \/ negate(lit) \in Trail

C10_Witness ==
    /\ pc = "search_ret"
    /\ ret = SOLUTION_UNSATISFIABLE
    /\ solver.n_assigned >= 1
    /\ \E lit \in LitIds \ Trail : ~solver.lits[lit].fixed /\ solver.lits[lit].assigned

(***************************************************************************)
(* C11 (L1): after every completed make_assignment or undo_assignment the  *)
(* two literals of a variable have the same fixed flag, and when they are  *)
(* fixed their assigned flags are opposite.                                *)
(***************************************************************************)
C11_L1_PairFlags ==
    solver.assert_failed = "none" =>
        \A lit \in LitIds :
            /\ solver.lits[lit].fixed = solver.lits[negate(lit)].fixed
            /\ solver.lits[lit].fixed =>
                   solver.lits[lit].assigned # solver.lits[negate(lit)].assigned

\* an undo_assignment has completed below an assignment that still stands
C11_Witness ==
    /\ pc = "backtrack"
    /\ solver.n_assigned >= 1
    /\ \E lit \in LitIds : /\ ~solver.lits[lit].fixed
                           /\ ~solver.lits[negate(lit)].fixed
                           /\ solver.lits[lit].assigned

(***************************************************************************)
(* C12 (S5): n_units = 0 at every entry to search_assignments, top-level   *)
(* or recursive, and at every return from it, also after a propagation     *)
(* conflict.                                                               *)
(***************************************************************************)
C12_S5_NoPendingUnits ==
    pc \in {"search", "search_ret"} =>
        solver.n_units = 0 /\ solver.unit_stack = <<>>

\* search_assignments returns UNSATISFIABLE to solve_problem after the second
\* polarity of the first branch met a false unit while another unit was
\* still on the unit stack
C12_Witness ==
    /\ Solving(PendingConflict)
    /\ pc = "search_ret"
    /\ frames = <<>>
    /\ ret = SOLUTION_UNSATISFIABLE
    /\ solver.n_unsat_clauses = 0
    /\ solver.t_branches = 2
    /\ solver.t_unit_props = 2

(***************************************************************************)
(* Vocabulary of the properties about reading and writing                  *)
(***************************************************************************)
RECURSIVE Flatten(_)
\* the integers of the v lines in the order written
Flatten(lines) ==
    IF lines = <<>> THEN <<>> ELSE Head(lines) \o Flatten(Tail(lines))

Written == Flatten(output.v_lines)

\* how many times integer n was written
TimesWritten(n) == Cardinality({i \in 1 .. Len(Written) : Written[i] = n})

WroteSatisfiable == output.written /\ output.s_line = SOLUTION_SATISFIABLE

\* the terminator 0 is the last integer written and is written once
EndsWithZero ==
    /\ Len(Written) >= 1
    /\ Written[Len(Written)] = 0
    /\ TimesWritten(0) = 1

AssignedTrue(lit) == solver.lits[lit].fixed /\ solver.lits[lit].assigned

\* the clause loop of read_problem was left before all clauses were read
LoadFailed == pc # "load" /\ load_i < solver.n_clauses

(***************************************************************************)
(* C16: when a character that is no white space follows the 0 of the last  *)
(* clause, read_problem returns ERROR_INVALID_FORMAT and no search is run. *)
(***************************************************************************)
C16_TrailingJunkRejected ==
    (/\ load_i = solver.n_clauses
     /\ read_err = ERROR_INVALID_FORMAT
     /\ pc \notin {"load", "tail"}) =>
        /\ err = ERROR_INVALID_FORMAT
        /\ pc \in {"read_ret", "exit"}

(***************************************************************************)
(* C17: when the clause loop fails, read_problem returns                   *)
(* ERROR_INVALID_FORMAT with the partially built solver released exactly   *)
(* once; solve_problem then runs no search, writes nothing and does not    *)
(* call delete_solver again.                                               *)
(***************************************************************************)
C17_LoadFailureReleasesOnce ==
    LoadFailed =>
        /\ read_err = ERROR_INVALID_FORMAT
        /\ err = ERROR_INVALID_FORMAT
        /\ n_deleted = 1
        /\ pc \in {"read_ret", "exit"}
        /\ solver.solution = SOLUTION_UNKNOWN
        /\ solver.t_branches = 0
        /\ ~output.written

\* the process has ended after a failure in the middle of the second clause
C17_Witness ==
    /\ LoadFailed
    /\ pc = "exit"
    /\ load_i = 1
    /\ solver.clauses[0].n_lits >= 1
    /\ solver.clauses[1].n_lits >= 1

(***************************************************************************)
(* C18, as stated: on SATISFIABLE the v lines hold, for every variable v   *)
(* in 1..n_vars, exactly one of +v and -v (+v iff v is assigned true), and *)
(* then the terminator 0.                                                  *)
(***************************************************************************)
C18_EveryVariableListed ==
    WroteSatisfiable =>
        /\ \A v \in 1 .. solver.n_vars :
               /\ TimesWritten(v) + TimesWritten(-v) = 1
               /\ TimesWritten(v) = 1 <=> AssignedTrue(lit_from_int(v))
        /\ EndsWithZero

(***************************************************************************)
(* C18, amended: on SATISFIABLE the v lines hold the fixed part of the     *)
(* assignment: +v is written (once) iff the positive literal of v is fixed *)
(* and assigned, -v iff the negative literal is, never both; a variable    *)
(* the search left unfixed is not written; then the terminator 0.          *)
(***************************************************************************)
C18_FixedVariablesListed ==
    WroteSatisfiable =>
        /\ \A v \in 1 .. solver.n_vars :
               /\ TimesWritten(v) = (IF AssignedTrue(lit_from_int(v)) THEN 1 ELSE 0)
               /\ TimesWritten(-v) = (IF AssignedTrue(lit_from_int(-v)) THEN 1 ELSE 0)
               /\ TimesWritten(v) + TimesWritten(-v) <= 1
        /\ \A i \in 1 .. Len(Written) :
               Written[i] \in (-solver.n_vars) .. solver.n_vars
        /\ EndsWithZero

\* a solution was written in which one variable is false and another one
\* was left unfixed by the search
C18_Witness ==
    /\ WroteSatisfiable
    /\ \E v \in 1 .. solver.n_vars : TimesWritten(-v) = 1
    /\ \E v \in 1 .. solver.n_vars :
           ~solver.lits[lit_from_int(v)].fixed /\ TimesWritten(v) + TimesWritten(-v) = 0

(***************************************************************************)
(* C20: int_from_lit(lit_from_int(n)) = n for every nonzero n with         *)
(* |n| <= n_vars; lit_from_int maps a positive n to the even code 2(n-1)   *)
(* and a negative n to the odd code 2(|n|-1)+1.                            *)
(***************************************************************************)
C20_LiteralRoundTrip ==
    \A n \in ((-solver.n_vars) .. solver.n_vars) \ {0} :
        /\ int_from_lit(lit_from_int(n)) = n
        /\ n > 0 => lit_from_int(n) = 2 * (n - 1)
        /\ n < 0 => lit_from_int(n) = 2 * ((-n) - 1) + 1
        /\ lit_from_int(n) \in LitIds

\* lit_from_int stored the negative literal of the last variable in a clause
\* and int_from_lit wrote it out again
C20_Witness ==
    /\ WroteSatisfiable
    /\ solver.n_vars >= 2
    /\ \E c \in ClauseIds : lit_from_int(-solver.n_vars) \in ClauseLits(c)
    /\ TimesWritten(-solver.n_vars) = 1

(***************************************************************************)
(* C14: on the formula (-1 2)(-2 3)(-3) over 3 variables the search runs   *)
(* to a verdict, the verdict is SATISFIABLE with variables 1, 2 and 3 all  *)
(* fixed and false, and the output is v -1 -2 -3 0.                        *)
(***************************************************************************)
C14_ChainAllFalse ==
    Solving(Chain) =>
        /\ pc # "abort"
        /\ HasVerdict =>
               /\ solver.solution = SOLUTION_SATISFIABLE
               /\ \A v \in 1 .. 3 : /\ solver.lits[lit_from_int(v)].fixed
                                    /\ AssignedTrue(lit_from_int(-v))
               /\ solver.n_assigned = 3
        /\ output.written =>
               /\ output.s_line = SOLUTION_SATISFIABLE
               /\ output.v_lines = << <<-1, -2, -3, 0>> >>

\* the solution of the chain has been written, after a first branch that
\* failed and a unit propagation
C14_Witness ==
    /\ Solving(Chain)
    /\ output.written
    /\ output.v_lines = << <<-1, -2, -3, 0>> >>
    /\ solver.t_branches >= 3
    /\ solver.t_unit_props >= 1

(***************************************************************************)
(* C15: on the pigeonhole formula with three pigeons and two holes the     *)
(* search runs to a verdict, the verdict is UNSATISFIABLE, and t_branches  *)
(* and t_unit_props are both greater than 0 on return.                     *)
(***************************************************************************)
C15_PigeonholeUnsatisfiable ==
    Solving(Pigeonhole) =>
        /\ pc # "abort"
        /\ HasVerdict =>
               /\ solver.solution = SOLUTION_UNSATISFIABLE
               /\ solver.t_branches > 0
               /\ solver.t_unit_props > 0
        /\ output.written =>
               /\ output.s_line = SOLUTION_UNSATISFIABLE
               /\ output.v_lines = <<>>

\* the search has returned on the pigeonhole formula, every assignment undone
C15_Witness ==
    /\ Solving(Pigeonhole)
    /\ pc = "done"
    /\ solver.solution = SOLUTION_UNSATISFIABLE
    /\ solver.n_assigned = 0
    /\ solver.t_branches >= 2

(***************************************************************************)
(* C13 (undo symmetry): every undo_assignment that closes a make_assignment *)
(* in stack order gives every clause's n_assigned_true, n_assigned_false   *)
(* and n_free_lits, every literal's fixed flag, n_sat_clauses and          *)
(* n_unsat_clauses the values they had before that make_assignment, so any *)
(* balanced sequence ends with the values it began with; no assertion of   *)
(* the two functions fails on the way.                                     *)
(***************************************************************************)
C13_UndoSymmetry ==
    [][pc = "driver" =>
          /\ pc' # "abort"
          /\ Len(undo_log') < Len(undo_log) =>
                 counters(solver') = undo_log[Len(undo_log)].before]_vars

\* a balanced sequence of two nested assignments has ended on a formula with
\* a tautological clause: the assigned flags are left over, nothing is fixed
C13_Witness ==
    /\ pc = "driver"
    /\ undo_log = <<>>
    /\ \E c \in ClauseIds : \E lit \in ClauseLits(c) :
           /\ negate(lit) \in ClauseLits(c)
           /\ solver.lits[lit].assigned
    /\ solver.n_vars >= 2
    /\ \E lit \in LitIds : lit \div 2 = 1 /\ solver.lits[lit].assigned
    /\ \A lit \in LitIds : ~solver.lits[lit].fixed
    /\ solver.n_sat_clauses = 0

(***************************************************************************)
(* Vocabulary of the properties about the width of the output              *)
(***************************************************************************)
RECURSIVE TokensLength(_)
\* the characters the integers of a v line take, each printed as " %d"
TokensLength(line) ==
    IF line = <<>> THEN 0 ELSE numlen(Head(line)) + TokensLength(Tail(line))

\* the length of a v line: the "v" and its integers, without the newline
LineLength(line) == 1 + TokensLength(line)

(***************************************************************************)
(* C19: no v line written by write_solution, the line with the final 0     *)
(* included, is longer than 79 characters.                                 *)
(***************************************************************************)
C19_LineWidth ==
    output.written =>
        \A i \in 1 .. Len(output.v_lines) :
            LineLength(output.v_lines[i]) <= LINE_WIDTH

\* a solution was written whose integers fill the second v line up to
\* column 79, so that the final 0 is written on a third line
C19_Witness ==
    /\ WroteSatisfiable
    /\ Len(output.v_lines) = 3
    /\ LineLength(output.v_lines[2]) = LINE_WIDTH
    /\ output.v_lines[3] = <<0>>

(***************************************************************************)
(* C21: for every variable v, negate(lit_from_int(+v)) = lit_from_int(-v)  *)
(* and negate(lit_from_int(-v)) = lit_from_int(+v); negate is its own      *)
(* inverse and never leaves the variable of its argument.                  *)
(***************************************************************************)
C21_NegateFlipsPolarity ==
    /\ \A v \in 1 .. solver.n_vars :
           /\ negate(lit_from_int(v)) = lit_from_int(-v)
           /\ negate(lit_from_int(-v)) = lit_from_int(v)
    /\ \A lit \in LitIds :
           /\ negate(lit) \in LitIds
           /\ negate(lit) \div 2 = lit \div 2
           /\ negate(lit) # lit
           /\ negate(negate(lit)) = lit

\* search_assignments has passed negate(branch) to its second try_assignment
\* for a negative branch literal of variable 2, and that literal is assigned
C21_Witness ==
    /\ pc = "propagate"
    /\ Len(frames) >= 2
    /\ frames[Len(frames) - 1].second
    /\ frames[Len(frames) - 1].branch = lit_from_int(-2)
    /\ top.branch = lit_from_int(2)
    /\ AssignedTrue(lit_from_int(2))
    /\ ~solver.lits[lit_from_int(-2)].assigned

(***************************************************************************)
(* C22: while the formula is read, add_literal_to_clause with a literal    *)
(* the clause already holds changes nothing, so no clause holds a literal  *)
(* twice and no occurrence list holds a clause twice.                      *)
(***************************************************************************)
C22_DuplicateLiteralIgnored ==
    pc = "load" =>
    /\ \A c \in ClauseIds : \A lit \in ClauseLits(c) :
           add_literal_to_clause(solver, c, lit) = solver
    /\ \A c \in ClauseIds :
           LET cstate == solver.clauses[c] IN
           /\ Len(cstate.lits) = cstate.n_lits
           /\ Cardinality(ClauseLits(c)) = cstate.n_lits
           /\ cstate.n_free_lits = cstate.n_lits
    /\ \A lit \in LitIds :
           LET lstate == solver.lits[lit] IN
           /\ Len(lstate.cont_clauses) = lstate.n_cont_clauses
           /\ Cardinality({lstate.cont_clauses[i] :
                              i \in 1 .. lstate.n_cont_clauses}) = lstate.n_cont_clauses
           /\ \A c \in ClauseIds :
                  (\E i \in 1 .. lstate.n_cont_clauses : lstate.cont_clauses[i] = c)
                      <=> lit \in ClauseLits(c)

\* the clause being read holds two literals, one of which an earlier clause
\* holds as well, and a further integer may be read
C22_Witness ==
    /\ pc = "load"
    /\ load_i >= 1
    /\ load_i < solver.n_clauses
    /\ solver.clauses[load_i].n_lits = 2
    /\ lits_loaded(solver, 0) < MaxLits
    /\ \E lit \in ClauseLits(load_i) : solver.lits[lit].n_cont_clauses = 2

(***************************************************************************)
(* Vocabulary of the properties about tautological clauses                 *)
(***************************************************************************)
\* clause c holds both literals of the variable of lit
Tautological(c, lit) == lit \in ClauseLits(c) /\ negate(lit) \in ClauseLits(c)

\* the clauses of s that hold lit, are not satisfied and have `free` literals
\* left
UnsatisfiedWith(s, lit, free) ==
    {c \in 0 .. (s.n_clauses - 1) :
        /\ \E i \in 1 .. s.clauses[c].n_lits : s.clauses[c].lits[i] = lit
        /\ s.clauses[c].n_assigned_true = 0
        /\ s.clauses[c].n_free_lits = free}

\* the literal the next step passes to make_assignment, if it calls it:
\* the branch of try_assignment, or the unit popped by the propagation loop
NextMade ==
    IF pc = "try" THEN {try_argument(top)}
    ELSE IF pc = "propagate" /\ solver.n_units > 0
    THEN {lit \in LitIds : /\ lit = solver.unit_stack[solver.n_units]
                           /\ ~solver.lits[lit].fixed}
    ELSE {}

(***************************************************************************)
(* C23: a clause holding both literals of a variable v is stored as read;  *)
(* make_assignment on either literal of v leaves it with                   *)
(* n_assigned_true >= 1, counts it once in n_sat_clauses, does not count   *)
(* it in n_unsat_clauses and pushes no unit for it, and this stays so      *)
(* under further assignments while v is fixed.                             *)
(***************************************************************************)
C23_TautologySatisfied ==
    solver.assert_failed = "none" =>
        /\ \A c \in ClauseIds : \A lit \in ClauseLits(c) :
               (pc = "load" /\ negate(lit) \notin ClauseLits(c)) =>
                   add_literal_to_clause(solver, c, negate(lit)).clauses[c].lits
                       = Append(solver.clauses[c].lits, negate(lit))
        /\ \A c \in ClauseIds : \A lit \in LitIds :
               (Tautological(c, lit) /\ solver.lits[lit].fixed) =>
                   solver.clauses[c].n_assigned_true >= 1
        /\ \A lit \in NextMade :
               LET s1 == make_assignment(solver, lit) IN
               /\ s1.assert_failed = "none"
               /\ \A c \in ClauseIds :
                      Tautological(c, lit) =>
                          /\ s1.clauses[c].n_assigned_true >= 1
                          /\ s1.clauses[c].n_assigned_true
                                 = solver.clauses[c].n_assigned_true + 1
               /\ s1.n_sat_clauses - solver.n_sat_clauses =
                      Cardinality({c \in ClauseIds :
                          /\ lit \in ClauseLits(c)
                          /\ solver.clauses[c].n_assigned_true = 0})
               /\ s1.n_unsat_clauses - solver.n_unsat_clauses =
                      Cardinality(UnsatisfiedWith(s1, negate(lit), 0))
               /\ s1.n_units - solver.n_units =
                      Cardinality(UnsatisfiedWith(s1, negate(lit), 1))

\* a clause with both literals of a fixed variable has no free literal left
\* and two false ones, and counts as satisfied
C23_Witness ==
    /\ solver.assert_failed = "none"
    /\ \E c \in ClauseIds : \E lit \in LitIds :
           /\ Tautological(c, lit)
           /\ solver.lits[lit].fixed
           /\ solver.clauses[c].n_free_lits = 0
           /\ solver.clauses[c].n_assigned_false = 2
           /\ solver.clauses[c].n_assigned_true = 1
    /\ solver.n_unsat_clauses = 0

(***************************************************************************)
(* C24: when try_assignment(branch) returns UNSATISFIABLE, n_assigned, the *)
(* trail, every literal's fixed flag, every clause's n_assigned_true,      *)
(* n_assigned_false and n_free_lits, n_sat_clauses and n_unsat_clauses are *)
(* what they were at the call, and n_units = 0.                            *)
(***************************************************************************)
C24_FailedTryRestores ==
    (pc = "try_ret" /\ ret = SOLUTION_UNSATISFIABLE) =>
        /\ undo_log # <<>>
        /\ LET call == undo_log[Len(undo_log)] IN
           /\ call.lit = top.branch
           /\ solver.n_assigned = call.n_assigned
           /\ solver.assigned = call.assigned
           /\ counters(solver) = call.before
        /\ solver.n_units = 0
        /\ solver.unit_stack = <<>>

\* the second try_assignment on PendingConflict returns after a propagation
\* conflict: two units were assigned on the way, nothing is fixed any more
\* and the assigned flag of the last unit is left over
C24_Witness ==
    /\ Solving(PendingConflict)
    /\ pc = "try_ret"
    /\ ret = SOLUTION_UNSATISFIABLE
    /\ solver.t_branches = 2
    /\ solver.t_unit_props = 2
    /\ solver.n_assigned = 0
    /\ solver.lits[lit_from_int(-3)].assigned
    /\ ~solver.lits[lit_from_int(-3)].fixed

(***************************************************************************)
(* C25: in a search_assignments frame that has chosen the branch l,        *)
(* try_assignment(l) runs first; try_assignment(negate(l)) starts only     *)
(* from the return of try_assignment(l) with UNSATISFIABLE and the state   *)
(* of the call restored; the frame returns UNSATISFIABLE only from the     *)
(* return of try_assignment(negate(l)) with UNSATISFIABLE; a return of the *)
(* first try_assignment with another verdict ends the frame at once.       *)
(***************************************************************************)
C25_SecondPolarityAfterFailure ==
    [][LET n == Len(frames)
           m == Len(frames')
       IN
       \* a try_assignment starts: first with the branch, then with its negation
       /\ (pc = "try" /\ pc' = "propagate") =>
              frames'[m].branch = (IF frames[n].second THEN negate(frames[n].branch)
                                                       ELSE frames[n].branch)
       \* the frame turns to its second polarity
       /\ (pc' = "try" /\ frames'[m].second) =>
              /\ pc = "try_ret"
              /\ ret = SOLUTION_UNSATISFIABLE
              /\ ~frames[n - 1].second
              /\ frames[n].branch = frames[n - 1].branch
              /\ frames'[m].branch = frames[n - 1].branch
              /\ counters(solver) = undo_log[Len(undo_log)].before
              /\ solver.n_assigned = undo_log[Len(undo_log)].n_assigned
              /\ solver' = solver
       \* the frame returns UNSATISFIABLE after a try_assignment
       /\ (pc = "try_ret" /\ pc' = "search_ret" /\ ret' = SOLUTION_UNSATISFIABLE) =>
              /\ frames[n - 1].second
              /\ frames[n].branch = negate(frames[n - 1].branch)
              /\ ret = SOLUTION_UNSATISFIABLE
       \* a try_assignment returns another verdict
       /\ (pc = "try_ret" /\ ret # SOLUTION_UNSATISFIABLE) =>
              /\ pc' = "search_ret"
              /\ ret' = ret
              /\ frames' = pop(pop(frames))]_vars

\* an inner frame has seen both polarities of its branch fail
C25_Witness ==
    /\ pc = "try_ret"
    /\ ret = SOLUTION_UNSATISFIABLE
    /\ Len(frames) >= 4
    /\ frames[Len(frames) - 1].second
    /\ top.branch = negate(frames[Len(frames) - 1].branch)

(***************************************************************************)
(* Vocabulary of the properties about the branching heuristic              *)
(***************************************************************************)
\* the variables of the solver, numbered from 0 as the pairs of literal codes
VarIds == 0 .. (solver.n_vars - 1)

Unfixed(v) == ~solver.lits[2 * v].fixed

\* the score update_scores gives to lit in the current state
Refreshed(lit) == update_scores(solver).lits[lit].score

\* the combined score of variable v
Combined(v) == (Refreshed(2 * v) + 1) * (Refreshed(2 * v + 1) + 1)

(***************************************************************************)
(* C26: whenever search_assignments reaches choose_branch, at least one    *)
(* variable is unassigned and at least one clause is unsatisfied, and the  *)
(* literal returned belongs to a variable that is not fixed.               *)
(***************************************************************************)
C26_ChoosePrecondition ==
    pc = "choose" =>
        /\ \E v \in VarIds : Unfixed(v)
        /\ solver.n_assigned < solver.n_vars
        /\ solver.n_sat_clauses < solver.n_clauses
        /\ Unfixed(choose_branch(solver) \div 2)

(***************************************************************************)
(* C27: called with its precondition, choose_branch returns a literal of   *)
(* the lowest-indexed unfixed variable whose combined score (a+1)*(b+1) is *)
(* maximal among the unfixed variables; it is the positive literal if      *)
(* a >= b and the negative one otherwise.                                  *)
(***************************************************************************)
C27_ChooseBranchResult ==
    (pc = "choose" /\ choose_branch_pre(solver)) =>
        LET lit == choose_branch(solver)
            v == lit \div 2
        IN /\ v \in VarIds
           /\ Unfixed(v)
           /\ \A w \in VarIds : Unfixed(w) => Combined(w) <= Combined(v)
           /\ \A w \in VarIds : (Unfixed(w) /\ w < v) => Combined(w) < Combined(v)
           /\ lit = (IF Refreshed(2 * v) >= Refreshed(2 * v + 1) THEN 2 * v
                                                                 ELSE 2 * v + 1)

\* choose_branch is called with two unfixed variables of the same combined
\* score, the first of which has the higher score on its negative literal
C27_Witness ==
    /\ pc = "choose"
    /\ choose_branch_pre(solver)
    /\ solver.n_vars = 2
    /\ Unfixed(0) /\ Unfixed(1)
    /\ Combined(0) = Combined(1)
    /\ Combined(0) > 1
    /\ Refreshed(0) < Refreshed(1)

(***************************************************************************)
(* C28: every unsatisfied clause that update_scores scores has at least 2  *)
(* free literals, so that the default case of the switch on n_free_lits is *)
(* only reached with n_free_lits >= 4.                                     *)
(***************************************************************************)
C28_ScoredClausesNotUnit ==
    (pc = "choose" /\ choose_branch_pre(solver)) =>
        \A lit \in LitIds : \A c \in ClauseIds :
            (/\ ~solver.lits[lit].fixed
             /\ lit \in ClauseLits(c)
             /\ solver.clauses[c].n_assigned_true = 0) =>
                /\ solver.clauses[c].n_free_lits >= 2
                /\ weight(solver.clauses[c].n_free_lits) = 1 =>
                       solver.clauses[c].n_free_lits >= 4

(***************************************************************************)
(* Vocabulary of the properties about units                                *)
(***************************************************************************)
\* the literals of clause c that are not fixed in s
FreeLits(s, c) ==
    {s.clauses[c].lits[i] : i \in {j \in 1 .. s.clauses[c].n_lits :
                                      ~s.lits[s.clauses[c].lits[j]].fixed}}

\* the units make_assignment pushed on the way from s to s1
Pushed(s, s1) == {s1.unit_stack[i] : i \in (s.n_units + 1) .. s1.n_units}

(***************************************************************************)
(* C29: every call of get_unit in a search is made with n_free_lits = 1    *)
(* and n_assigned_true = 0 on a clause with exactly one literal that is    *)
(* not fixed, and returns that literal; -1 is never returned.              *)
(***************************************************************************)
C29_GetUnitFindsTheFreeLiteral ==
    /\ solver.assert_failed \notin {"get_unit", "out_of_bounds"}
    /\ \A i \in 1 .. solver.n_units : solver.unit_stack[i] \in LitIds
    /\ \A lit \in NextMade :
               LET s1 == make_assignment(solver, lit)
                   made_unit == UnsatisfiedWith(s1, negate(lit), 1)
               IN /\ s1.assert_failed = "none"
                  /\ s1.n_units - solver.n_units = Cardinality(made_unit)
                  /\ \A c \in made_unit : Cardinality(FreeLits(s1, c)) = 1
                  /\ Pushed(solver, s1) = UNION {FreeLits(s1, c) : c \in made_unit}
                  /\ UNIT_NOT_FOUND \notin Pushed(solver, s1)

\* make_assignment has just pushed the one free literal of a clause
C29_Witness ==
    /\ pc = "propagate"
    /\ solver.n_units = 1
    /\ ~solver.lits[solver.unit_stack[1]].fixed
    /\ \E c \in ClauseIds :
           /\ solver.clauses[c].n_assigned_true = 0
           /\ solver.clauses[c].n_free_lits = 1
           /\ solver.clauses[c].n_lits = 2
           /\ FreeLits(solver, c) = {solver.unit_stack[1]}

(***************************************************************************)
(* C30: n_units never exceeds the 2*n_vars + n_clauses slots allocated for *)
(* unit_stack: no push writes past the array.                              *)
(***************************************************************************)
C30_UnitStackFits ==
    /\ solver.n_units = Len(solver.unit_stack)
    /\ solver.n_units <= max_unit_props(solver)
    /\ \A lit \in NextMade :
           make_assignment(solver, lit).n_units <= max_unit_props(solver)

\* more units are pending than the solver has variables
C30_Witness ==
    /\ pc = "propagate"
    /\ solver.n_units > solver.n_vars
    /\ solver.assert_failed = "none"


\* the running activations of try_assignment, outermost first
TryFrames == SelectSeq(frames, LAMBDA f : f.fn = "try_assignment")

\* the recursion depth: each try_assignment is called by one
\* search_assignments
TryDepth == Len(TryFrames)

\* the variable of a literal
var_of(lit) == lit \div 2

\* no variable is twice on the trail, in either polarity
TrailDistinct ==
    \A i, j \in 1 .. solver.n_assigned :
        i # j => var_of(solver.assigned[i]) # var_of(solver.assigned[j])

\* the running try_assignment has undone its assignments, or is undoing them
Unwinding == pc \in {"backtrack", "try_ret"}

(***************************************************************************)
(* C31 as stated: at every point of a search the number of running         *)
(* try_assignment activations is at most n_assigned, n_assigned is at most *)
(* n_vars, and no variable is twice on the trail.                          *)
(***************************************************************************)
C31_DepthWithinTrail ==
    Searching =>
        /\ TryDepth <= solver.n_assigned
        /\ solver.n_assigned <= solver.n_vars
        /\ TrailDistinct

(***************************************************************************)
(* C31 amended: the recursion depth never exceeds n_vars and the trail     *)
(* never exceeds its n_vars slots, with no variable twice on it; the k-th  *)
(* running try_assignment was entered with at least k - 1 literals on the  *)
(* trail, so the depth is at most n_assigned while the innermost           *)
(* try_assignment keeps its assignments, and at most n_assigned + 1 once   *)
(* it undoes them before it returns.                                       *)
(***************************************************************************)
C31_DepthWithinVars ==
    Searching =>
        /\ TryDepth <= solver.n_vars
        /\ solver.n_assigned <= solver.n_vars
        /\ Len(solver.assigned) = solver.n_assigned
        /\ TrailDistinct
        /\ \A k \in 1 .. TryDepth :
               /\ TryFrames[k].prev_n_assigned >= k - 1
               /\ TryFrames[k].prev_n_assigned <= solver.n_assigned
        /\ TryDepth <= solver.n_assigned + 1
        /\ ~Unwinding => TryDepth <= solver.n_assigned

\* the worst case: one try_assignment is running for every variable
C31_Witness ==
    /\ pc = "propagate"
    /\ solver.n_vars > 1
    /\ TryDepth = solver.n_vars
    /\ solver.n_assigned = solver.n_vars
    /\ solver.assert_failed = "none"


\* the literal is assigned false in s
AssignedFalse(s, lit) == s.lits[lit].fixed /\ ~s.lits[lit].assigned

\* clause c of s contains u and every other literal of it is assigned false
Forces(s, c, u) ==
    /\ \E i \in 1 .. s.clauses[c].n_lits : s.clauses[c].lits[i] = u
    /\ \A i \in 1 .. s.clauses[c].n_lits :
           s.clauses[c].lits[i] # u => AssignedFalse(s, s.clauses[c].lits[i])

\* clause c of s is unit on u: nothing in it is true, one literal is free, and
\* u is in it with every other literal false
UnitOn(s, c, u) ==
    /\ s.clauses[c].n_assigned_true = 0
    /\ s.clauses[c].n_free_lits = 1
    /\ ~s.lits[u].fixed
    /\ Forces(s, c, u)

(***************************************************************************)
(* C32: in the propagation loop every literal pending on unit_stack is in  *)
(* a clause whose other literals are all assigned false, and it was pushed *)
(* by a make_assignment that left such a clause with n_assigned_true = 0   *)
(* and n_free_lits = 1; so each literal the loop assigns is forced.        *)
(***************************************************************************)
C32_PendingUnitsForced ==
    /\ pc = "propagate" =>
           \A i \in 1 .. solver.n_units :
               \E c \in ClauseIds : Forces(solver, c, solver.unit_stack[i])
    /\ \A lit \in NextMade :
           LET s1 == make_assignment(solver, lit) IN
           /\ s1.n_units >= solver.n_units
           /\ SubSeq(s1.unit_stack, 1, solver.n_units) = solver.unit_stack
           /\ \A i \in (solver.n_units + 1) .. s1.n_units :
                  \E c \in ClauseIds :
                      /\ negate(lit) \in ClauseLits(c)
                      /\ UnitOn(s1, c, s1.unit_stack[i])

\* two units are pending, and the one the loop pops next is unfixed and
\* forced by a clause of more than one literal
C32_Witness ==
    /\ pc = "propagate"
    /\ solver.n_units >= 2
    /\ LET u == solver.unit_stack[solver.n_units] IN
       /\ ~solver.lits[u].fixed
       /\ \E c \in ClauseIds :
              /\ solver.clauses[c].n_lits >= 2
              /\ Forces(solver, c, u)


\* the propagation loop is about to pop a unit whose negation is assigned:
\* the case of lines 456-461
ConflictPopped ==
    /\ pc = "propagate"
    /\ solver.n_units > 0
    /\ solver.unit_stack[solver.n_units] \in LitIds
    /\ AssignedFalse(solver, solver.unit_stack[solver.n_units])

(***************************************************************************)
(* C33: when the propagation loop pops a unit that is fixed and assigned   *)
(* false, n_unsat_clauses > 0: a clause has all its literals false and the *)
(* terminal check of search_assignments would answer UNSATISFIABLE too.    *)
(***************************************************************************)
C33_ConflictIsCounted ==
    ConflictPopped =>
        /\ solver.n_unsat_clauses > 0
        /\ any_contradiction(solver)
        /\ \E c \in ClauseIds :
               /\ solver.unit_stack[solver.n_units] \in ClauseLits(c)
               /\ \A lit \in ClauseLits(c) : AssignedFalse(solver, lit)

\* a conflict is popped while some clause is unsatisfied under the trail
C33_Witness ==
    /\ ConflictPopped
    /\ solver.n_unsat_clauses > 0
    /\ solver.assert_failed = "none"


\* the backtrack loop is about to call undo_assignment on the last literal
\* of the trail
NextUndone ==
    IF pc = "backtrack" /\ solver.n_assigned > top.prev_n_assigned
    THEN {solver.assigned[solver.n_assigned]}
    ELSE {}

(***************************************************************************)
(* C34 as stated: undo_assignment(lit) first runs undo_false_assignment on *)
(* the clauses containing negate(lit), and undo_true_assignment on the     *)
(* clauses containing lit only after that: at the end of its first loop    *)
(* every clause of negate(lit) has one false literal less and no clause of *)
(* lit has lost a true literal.                                            *)
(***************************************************************************)
C34_UndoFalseFirst ==
    \A lit \in NextUndone :
        LET s1 == undo_assignment_first(solver, lit) IN
        \A c \in ClauseIds :
            /\ negate(lit) \in ClauseLits(c) =>
                   s1.clauses[c].n_assigned_false
                       = solver.clauses[c].n_assigned_false - 1
            /\ lit \in ClauseLits(c) =>
                   s1.clauses[c].n_assigned_true
                       = solver.clauses[c].n_assigned_true

(***************************************************************************)
(* C34 amended: undo_assignment(lit) runs its loops in the order of        *)
(* make_assignment: first undo_true_assignment on every clause containing  *)
(* lit, then undo_false_assignment on every clause containing negate(lit), *)
(* then it clears both fixed flags.                                        *)
(***************************************************************************)
C34_UndoTrueFirst ==
    \A lit \in NextUndone :
        LET s1 == undo_assignment_first(solver, lit)
            s2 == undo_false_loop(s1, negate(lit), 1)
            s3 == undo_assignment(solver, lit)
        IN /\ s3.assert_failed = "none"
           \* after the first loop: the true literals are undone, the false
           \* ones are not, the flags are still set
           /\ \A c \in ClauseIds :
                  /\ s1.clauses[c].n_assigned_true
                         = solver.clauses[c].n_assigned_true
                               - (IF lit \in ClauseLits(c) THEN 1 ELSE 0)
                  /\ s1.clauses[c].n_assigned_false
                         = solver.clauses[c].n_assigned_false
           /\ s1.lits[lit].fixed /\ s1.lits[negate(lit)].fixed
           \* after the second loop: the false literals are undone too
           /\ \A c \in ClauseIds :
                  /\ s2.clauses[c].n_assigned_true = s1.clauses[c].n_assigned_true
                  /\ s2.clauses[c].n_assigned_false
                         = solver.clauses[c].n_assigned_false
                               - (IF negate(lit) \in ClauseLits(c) THEN 1 ELSE 0)
           /\ s2.lits[lit].fixed /\ s2.lits[negate(lit)].fixed
           \* the flags are cleared last
           /\ s3 = [s2 EXCEPT !.lits[lit].fixed = FALSE,
                              !.lits[negate(lit)].fixed = FALSE]

\* the literal about to be undone is in one clause and its negation is in
\* another one, so the two orders differ after the first loop
C34_Witness ==
    /\ solver.assert_failed = "none"
    /\ \E lit \in NextUndone :
           /\ \E c \in ClauseIds : lit \in ClauseLits(c)
           /\ \E c \in ClauseIds : negate(lit) \in ClauseLits(c)


\* the two passes of undo_assignment in the order of the code
TrueThenFalse(s, lit) ==
    undo_false_loop(undo_true_loop(s, lit, 1), negate(lit), 1)

\* the two passes of undo_assignment in the other order
FalseThenTrue(s, lit) ==
    undo_true_loop(undo_false_loop(s, negate(lit), 1), lit, 1)

\* both orders of the passes run on s without a failed assertion and leave
\* the same counters
PassesCommute(s, lit) ==
    /\ TrueThenFalse(s, lit).assert_failed = "none"
    /\ FalseThenTrue(s, lit).assert_failed = "none"
    /\ counters(TrueThenFalse(s, lit)) = counters(FalseThenTrue(s, lit))
    /\ TrueThenFalse(s, lit) = FalseThenTrue(s, lit)

(***************************************************************************)
(* C35: on the state right after any make_assignment(lit) of a search, and *)
(* on every state the backtrack loop calls undo_assignment(lit) on, the    *)
(* undo_true_assignment pass and the undo_false_assignment pass give the   *)
(* same clause counters, n_sat_clauses and n_unsat_clauses in either       *)
(* order, and no assertion fails in either order.                          *)
(***************************************************************************)
C35_UndoPassesCommute ==
    /\ \A lit \in NextMade :
           LET s1 == make_assignment(solver, lit) IN
           /\ PassesCommute(s1, lit)
           /\ counters(TrueThenFalse(s1, lit)).clauses = counters(solver).clauses
    /\ \A lit \in NextUndone : PassesCommute(solver, lit)

\* a literal is about to be assigned that is in a clause together with its
\* negation, and in a clause without it
C35_Witness ==
    /\ solver.assert_failed = "none"
    /\ \E lit \in NextMade :
           /\ \E c \in ClauseIds : Tautological(c, lit)
           /\ \E c \in ClauseIds : lit \in ClauseLits(c) /\ ~Tautological(c, lit)


(***************************************************************************)
(* C36: every literal read_problem passes to add_literal_to_clause has a   *)
(* code below 2 * n_vars, so every literal stored in a clause is an index  *)
(* of solver.lits and no access to solver.lits is out of bounds.           *)
(***************************************************************************)
C36_LiteralsInRange ==
    /\ \A c \in ClauseIds : ClauseLits(c) \subseteq LitIds
    /\ solver.assert_failed # "out_of_bounds"

====
